---- MODULE Spec2Model ----
(***************************************************************************)
(* A model of FastAPI_CPP/http_lib.h: the JSON value model and its         *)
(* serializer, the HTTP request parser, the response writer and the        *)
(* canonical response factories.                                           *)
(*                                                                         *)
(* A std::string is a sequence of bytes, a byte a number in 0..255.  A     *)
(* std::map is the sequence of its entries in ascending key order, which   *)
(* is the order its iteration visits them in.                              *)
(***************************************************************************)
EXTENDS Integers, Sequences, FiniteSets, TLC

VARIABLES
    pc,           \* "call": the arguments are chosen; "done": the callee has returned
    callee,       \* the function the caller is about to run
    raw_request,  \* parse_request: the buffer handed to it
    sent,         \* the Request a client serialized into raw_request, if one did
    request,      \* parse_request: its outcome
    json,         \* the JSON value (stringify, the factories)
    signedChar,   \* whether plain char is signed in this build
    text,         \* stringify: its result
    json_init,    \* JSON::object: the initializer list, if the value was built from one
    bodyArg,      \* the factories: the body argument, or its absence
    status,       \* custom_response: the HttpStatus argument
    headersArg,   \* the factories: the headers argument, or its absence
    response,     \* the Response (a factory's result, construct_response's argument)
    wire          \* construct_response: its result

vars == <<pc, callee, raw_request, sent, request, json, signedChar, text,
          json_init, bodyArg, status, headersArg, response, wire>>

----------------------------------------------------------------------------
(* Bytes that the source names as character literals.                      *)

BS == 8
TAB == 9
LF == 10
FF == 12
CR == 13
US == 31
SP == 32
QUOTE == 34
PLUS == 43
COMMA == 44
MINUS == 45
DOT == 46
ZERO == 48
COLON == 58
BACKSLASH == 92

INT_MAX == 2147483647
INT_MIN == (0 - INT_MAX) - 1

Min(S) == CHOOSE x \in S : \A y \in S : x <= y
Max(S) == CHOOSE x \in S : \A y \in S : x >= y

\* ::isspace in the "C" locale: space, \t, \n, \v, \f, \r
isspace(c) == c = SP \/ (TAB <= c /\ c <= CR)

isdigit(c) == ZERO <= c /\ c <= ZERO + 9

\* std::string's operator<: lexicographic, bytes compared as unsigned char
RECURSIVE StrLess(_, _)
StrLess(a, b) ==
    IF b = <<>> THEN FALSE
    ELSE IF a = <<>> THEN TRUE
    ELSE IF a[1] # b[1] THEN a[1] < b[1]
    ELSE StrLess(Tail(a), Tail(b))

\* std::to_string(int), and operator<<(int): decimal digits, '-' when negative
RECURSIVE DigitsOf(_)
DigitsOf(n) ==
    IF n < 10 THEN <<ZERO + n>>
    ELSE Append(DigitsOf(n \div 10), ZERO + (n % 10))

\* the digits of -n for n <= 0, without forming -n (INT_MIN has no negation)
RECURSIVE DigitsOfNeg(_)
DigitsOfNeg(n) ==
    LET d == (10 - (n % 10)) % 10
    IN IF n > -10 THEN <<ZERO + d>>
       ELSE Append(DigitsOfNeg((n + d) \div 10), ZERO + d)

to_string(n) == IF n < 0 THEN <<MINUS>> \o DigitsOfNeg(n) ELSE DigitsOf(n)

----------------------------------------------------------------------------
(* std::map<std::string, T>: entries [key, value] in ascending key order.  *)

EmptyMap == <<>>

MapKeys(m) == {m[i].key : i \in 1..Len(m)}

MapAt(m, k) == m[CHOOSE i \in 1..Len(m) : m[i].key = k].value

\* the position a new key goes to: after every smaller key
MapLowerBound(m, k) == Cardinality({i \in 1..Len(m) : StrLess(m[i].key, k)})

\* MapInsert as a container that keeps insertion order would do it
MapInsert_append(m, k, v) ==
    IF k \in MapKeys(m) THEN m ELSE Append(m, [key |-> k, value |-> v])

\* insert: adds the entry unless the key is there already (the range
\* constructor of std::map does this for each element, in order)
MapInsert(m, k, v) ==
    IF k \in MapKeys(m) THEN m
    ELSE LET n == MapLowerBound(m, k)
         IN SubSeq(m, 1, n) \o <<[key |-> k, value |-> v]>> \o SubSeq(m, n + 1, Len(m))

\* MapAssign as headers.insert({key, value}) would do it: the first value stays
MapAssign_keepFirst(m, k, v) == MapInsert(m, k, v)

\* m[k] = v: adds the entry, or overwrites the value of the key
MapAssign(m, k, v) ==
    IF k \in MapKeys(m)
    THEN [i \in 1..Len(m) |-> IF m[i].key = k THEN [key |-> k, value |-> v] ELSE m[i]]
    ELSE MapInsert(m, k, v)

RECURSIVE MapFromRange(_)
MapFromRange(init) ==
    IF init = <<>> THEN EmptyMap
    ELSE LET n == Len(init)
         IN MapInsert(MapFromRange(SubSeq(init, 1, n - 1)), init[n].key, init[n].value)

----------------------------------------------------------------------------
(* class JSON: a tagged value.  A Double is held as a whole number of      *)
(* millionths, the precision std::to_string(double) prints ("%f").         *)

JSONnull == [type |-> "null"]
JSONbool(b) == [type |-> "bool", b |-> b]
JSONint(n) == [type |-> "int", i |-> n]
JSONdouble(micro) == [type |-> "double", micro |-> micro]
JSONstring(s) == [type |-> "string", s |-> s]
JSONarrayOf(a) == [type |-> "array", a |-> a]
JSONobjectOf(m) == [type |-> "object", o |-> m]

\* JSON::object(init): the Object is built from the range of the list
JSONobject(init) == JSONobjectOf(MapFromRange(init))

\* JSON::array(init)
JSONarray(init) == JSONarrayOf(init)

\* the value of a char holding byte c, converted to int
CharValue(c, isSigned) == IF isSigned /\ c >= 128 THEN c - 256 ELSE c

\* std::string(4 - digits.length(), '0') + digits
PadDecimal(n) ==
    LET digits == to_string(n)
    IN [i \in 1..(4 - Len(digits)) |-> ZERO] \o digits

\* EscapeChar with the byte value printed as four hexadecimal digits
HexDigit(d) == IF d < 10 THEN ZERO + d ELSE 97 + (d - 10)
PadHex(n) == <<ZERO, ZERO, HexDigit(n \div 16), HexDigit(n % 16)>>

EscapeCharHex(c, isSigned) ==
    CASE c = QUOTE -> <<BACKSLASH, QUOTE>>
      [] c = BACKSLASH -> <<BACKSLASH, BACKSLASH>>
      [] c = BS -> <<BACKSLASH, 98>>
      [] c = FF -> <<BACKSLASH, 102>>
      [] c = LF -> <<BACKSLASH, 110>>
      [] c = CR -> <<BACKSLASH, 114>>
      [] c = TAB -> <<BACKSLASH, 116>>
      [] OTHER ->
            IF 0 <= CharValue(c, isSigned) /\ CharValue(c, isSigned) <= US
            THEN <<BACKSLASH, 117>> \o PadHex(CharValue(c, isSigned))
            ELSE <<c>>

\* one turn of escape_string's loop: the text appended for the char c
EscapeChar(c, isSigned) ==
    CASE c = QUOTE -> <<BACKSLASH, QUOTE>>
      [] c = BACKSLASH -> <<BACKSLASH, BACKSLASH>>
      [] c = BS -> <<BACKSLASH, 98>>
      [] c = FF -> <<BACKSLASH, 102>>
      [] c = LF -> <<BACKSLASH, 110>>
      [] c = CR -> <<BACKSLASH, 114>>
      [] c = TAB -> <<BACKSLASH, 116>>
      [] OTHER ->
            IF 0 <= CharValue(c, isSigned) /\ CharValue(c, isSigned) <= US
            THEN <<BACKSLASH, 117>> \o PadDecimal(CharValue(c, isSigned))
            ELSE <<c>>

RECURSIVE escape_string(_, _)
escape_string(s, isSigned) ==
    IF s = <<>> THEN <<>>
    ELSE EscapeChar(Head(s), isSigned) \o escape_string(Tail(s), isSigned)

\* std::to_string(double): "%f", six digits after the point
DoubleToString(micro) ==
    LET a == IF micro < 0 THEN 0 - micro ELSE micro
        frac == DigitsOf(a % 1000000)
    IN (IF micro < 0 THEN <<MINUS>> ELSE <<>>)
       \o DigitsOf(a \div 1000000) \o <<DOT>>
       \o [i \in 1..(6 - Len(frac)) |-> ZERO] \o frac

Lit_null == <<110, 117, 108, 108>>
Lit_true == <<116, 114, 117, 101>>
Lit_false == <<102, 97, 108, 115, 101>>

RECURSIVE stringify(_, _)
RECURSIVE StringifyArray(_, _, _)
RECURSIVE StringifyObject(_, _, _)

\* the loop over arg[i], i from `i` on
StringifyArray(a, i, isSigned) ==
    IF i > Len(a) THEN <<>>
    ELSE (IF i > 1 THEN <<COMMA>> ELSE <<>>)
         \o stringify(a[i], isSigned) \o StringifyArray(a, i + 1, isSigned)

\* the loop over the entries of the map, in its iteration order
StringifyObject(m, i, isSigned) ==
    IF i > Len(m) THEN <<>>
    ELSE (IF i > 1 THEN <<COMMA>> ELSE <<>>)
         \o <<QUOTE>> \o escape_string(m[i].key, isSigned) \o <<QUOTE, COLON>>
         \o stringify(m[i].value, isSigned)
         \o StringifyObject(m, i + 1, isSigned)

stringify(j, isSigned) ==
    CASE j.type = "null" -> Lit_null
      [] j.type = "bool" -> (IF j.b THEN Lit_true ELSE Lit_false)
      [] j.type = "int" -> to_string(j.i)
      [] j.type = "double" -> DoubleToString(j.micro)
      [] j.type = "string" -> <<QUOTE>> \o escape_string(j.s, isSigned) \o <<QUOTE>>
      [] j.type = "array" -> <<91>> \o StringifyArray(j.a, 1, isSigned) \o <<93>>
      [] j.type = "object" -> <<123>> \o StringifyObject(j.o, 1, isSigned) \o <<125>>

----------------------------------------------------------------------------
(* HTTP primitive types and message structures.                            *)

\* enum class Method
Method == {"GET", "HEAD", "POST", "PUT", "PATCH", "DELETE", "CONNECT",
           "OPTIONS", "TRACE", "UNKNOWN"}

\* enum class HttpStatus: the enumerators; the type holds any int
HttpStatus == {200, 201, 202, 204, 400, 401, 403, 404, 405, 500, 501, 502, 503}

\* Response::status_message()
status_message(st) ==
    CASE st = 200 -> <<79, 75>>  \* OK
      [] st = 201 -> <<67, 114, 101, 97, 116, 101, 100>>  \* Created
      [] st = 202 -> <<65, 99, 99, 101, 112, 116, 101, 100>>  \* Accepted
      [] st = 204 -> <<78, 111, 32, 67, 111, 110, 116, 101, 110, 116>>  \* No Content
      [] st = 400 -> <<66, 97, 100, 32, 82, 101, 113, 117, 101, 115, 116>>  \* Bad Request
      [] st = 401 -> <<85, 110, 97, 117, 116, 104, 111, 114, 105, 122, 101, 100>>  \* Unauthorized
      [] st = 403 -> <<70, 111, 114, 98, 105, 100, 100, 101, 110>>  \* Forbidden
      [] st = 404 -> <<78, 111, 116, 32, 70, 111, 117, 110, 100>>  \* Not Found
      [] st = 405 -> <<77, 101, 116, 104, 111, 100, 32, 78, 111, 116, 32, 65, 108, 108, 111, 119, 101, 100>>  \* Method Not Allowed
      [] st = 500 -> <<73, 110, 116, 101, 114, 110, 97, 108, 32, 83, 101, 114, 118, 101, 114, 32, 69, 114, 114, 111, 114>>  \* Internal Server Error
      [] st = 501 -> <<78, 111, 116, 32, 73, 109, 112, 108, 101, 109, 101, 110, 116, 101, 100>>  \* Not Implemented
      [] st = 502 -> <<66, 97, 100, 32, 71, 97, 116, 101, 119, 97, 121>>  \* Bad Gateway
      [] st = 503 -> <<83, 101, 114, 118, 105, 99, 101, 32, 85, 110, 97, 118, 97, 105, 108, 97, 98, 108, 101>>  \* Service Unavailable
      [] OTHER -> <<85, 110, 107, 110, 111, 119, 110, 32, 83, 116, 97, 116, 117, 115>>  \* Unknown Status

\* trim that strips leading white space only
trim_leading(str) ==
    LET nonspace == {i \in 1..Len(str) : ~isspace(str[i])}
    IN IF nonspace = {} THEN <<>>
       ELSE SubSeq(str, Min(nonspace), Len(str))

\* trim(str): [first non-space, one past the last non-space), or empty
trim(str) ==
    LET nonspace == {i \in 1..Len(str) : ~isspace(str[i])}
    IN IF nonspace = {} THEN <<>>
       ELSE SubSeq(str, Min(nonspace), Max(nonspace))

\* std::getline(stream, line, delim) with the stream at `pos` of `s`: fails at
\* the end of the buffer, else takes the chars before the next delim (or up
\* to the end) and moves past the delim
getline(s, pos, delim) ==
    IF pos > Len(s) THEN [ok |-> FALSE, line |-> <<>>, pos |-> pos]
    ELSE LET ds == {i \in pos..Len(s) : s[i] = delim}
         IN IF ds = {}
            THEN [ok |-> TRUE, line |-> SubSeq(s, pos, Len(s)), pos |-> Len(s) + 1]
            ELSE [ok |-> TRUE, line |-> SubSeq(s, pos, Min(ds) - 1), pos |-> Min(ds) + 1]

\* split(str, delim): the tokens getline yields until it fails
RECURSIVE SplitFrom(_, _, _)
SplitFrom(str, pos, delim) ==
    LET g == getline(str, pos, delim)
    IN IF g.ok THEN <<g.line>> \o SplitFrom(str, g.pos, delim) ELSE <<>>

split(str, delim) == SplitFrom(str, 1, delim)

\* string_to_method(method)
string_to_method(method) ==
    IF method = <<71, 69, 84>> THEN "GET"
    ELSE IF method = <<72, 69, 65, 68>> THEN "HEAD"
    ELSE IF method = <<80, 79, 83, 84>> THEN "POST"
    ELSE IF method = <<80, 85, 84>> THEN "PUT"
    ELSE IF method = <<68, 69, 76, 69, 84, 69>> THEN "DELETE"
    ELSE IF method = <<67, 79, 78, 78, 69, 67, 84>> THEN "CONNECT"
    ELSE IF method = <<79, 80, 84, 73, 79, 78, 83>> THEN "OPTIONS"
    ELSE IF method = <<84, 82, 65, 67, 69>> THEN "TRACE"
    ELSE IF method = <<80, 65, 84, 67, 72>> THEN "PATCH"
    ELSE "UNKNOWN"

\* method_to_string(method)
method_to_string(method) ==
    CASE method = "GET" -> <<71, 69, 84>>
      [] method = "HEAD" -> <<72, 69, 65, 68>>
      [] method = "POST" -> <<80, 79, 83, 84>>
      [] method = "PUT" -> <<80, 85, 84>>
      [] method = "DELETE" -> <<68, 69, 76, 69, 84, 69>>
      [] method = "CONNECT" -> <<67, 79, 78, 78, 69, 67, 84>>
      [] method = "OPTIONS" -> <<79, 80, 84, 73, 79, 78, 83>>
      [] method = "TRACE" -> <<84, 82, 65, 67, 69>>
      [] method = "PATCH" -> <<80, 65, 84, 67, 72>>
      [] OTHER -> <<85, 78, 75, 78, 79, 87, 78>>

\* a run of decimal digits without its leading zeros
RECURSIVE StripZeros(_)
StripZeros(ds) ==
    IF Len(ds) > 1 /\ ds[1] = ZERO THEN StripZeros(Tail(ds)) ELSE ds

\* whether the digits ds, negated or not, name a value of int
Lit_INT_MAX == <<50, 49, 52, 55, 52, 56, 51, 54, 52, 55>>      \* "2147483647"
Lit_INT_MIN_ABS == <<50, 49, 52, 55, 52, 56, 51, 54, 52, 56>>  \* "2147483648"
FitsInt(ds, negative) ==
    LET z == StripZeros(ds)
        limit == IF negative THEN Lit_INT_MIN_ABS ELSE Lit_INT_MAX
    IN Len(z) < Len(limit) \/ (Len(z) = Len(limit) /\ ~StrLess(limit, z))

\* minus the value of a run of decimal digits that fits
RECURSIVE NegDigitsValue(_)
NegDigitsValue(ds) ==
    IF ds = <<>> THEN 0
    ELSE 10 * NegDigitsValue(SubSeq(ds, 1, Len(ds) - 1)) - (ds[Len(ds)] - ZERO)

\* std::stoi(str): strtol in base 10 (leading white space, an optional sign,
\* the longest run of digits; what follows is ignored), std::invalid_argument
\* when there is no digit, std::out_of_range when the value is no int
stoi(str) ==
    LET nonspace == {i \in 1..Len(str) : ~isspace(str[i])}
        b == IF nonspace = {} THEN Len(str) + 1 ELSE Min(nonspace)
        signed == b <= Len(str) /\ str[b] \in {PLUS, MINUS}
        negative == signed /\ str[b] = MINUS
        d == IF signed THEN b + 1 ELSE b
        stop == {i \in d..Len(str) : ~isdigit(str[i])}
        e == IF stop = {} THEN Len(str) ELSE Min(stop) - 1
        ds == SubSeq(str, d, e)
    IN IF e < d THEN [ok |-> FALSE, what |-> "invalid_argument"]
       ELSE IF ~FitsInt(ds, negative) THEN [ok |-> FALSE, what |-> "out_of_range"]
       ELSE [ok |-> TRUE,
             value |-> IF negative THEN NegDigitsValue(StripZeros(ds))
                       ELSE 0 - NegDigitsValue(StripZeros(ds))]

----------------------------------------------------------------------------
(* parse_request.                                                          *)

\* `Request request;` default-initializes: uri, headers and body are empty,
\* method and version (an enum and two ints, no initializer) hold
\* indeterminate values
IndeterminateInt == {0, -5}

\* what reading version_parts[i] yields for i >= version_parts.size(): the
\* process dies, or the read completes with whatever bytes lie there
OutOfBoundsRead ==
    {[crash |-> TRUE]} \cup {[crash |-> FALSE, str |-> g] : g \in {<<>>, <<ZERO + 7>>, <<120>>}}

NoRead == [crash |-> FALSE, str |-> <<>>]

\* version_parts[i] (i counted from 0)
VectorAt(version_parts, i, oob) ==
    IF i < Len(version_parts) THEN [crash |-> FALSE, str |-> version_parts[i + 1]]
    ELSE oob[i]

Threw(what) == [outcome |-> "threw", what |-> what]
Crashed == [outcome |-> "crashed"]

\* the body of `if (parts.size() >= 3)`: the fields it assigns, or how it ends
RequestLine(parts, ind) ==
    IF Len(parts[3]) < 5 THEN Threw("out_of_range")   \* parts[2].substr(5)
    ELSE
      LET version_parts == split(SubSeq(parts[3], 6, Len(parts[3])), DOT)
          p0 == VectorAt(version_parts, 0, ind.oob)
          p1 == VectorAt(version_parts, 1, ind.oob)
      IN IF p0.crash THEN Crashed
         ELSE IF ~stoi(p0.str).ok THEN Threw(stoi(p0.str).what)
         ELSE IF p1.crash THEN Crashed
         ELSE IF ~stoi(p1.str).ok THEN Threw(stoi(p1.str).what)
         ELSE [outcome |-> "ok",
               method |-> string_to_method(parts[1]),
               uri |-> parts[2],
               version |-> [major |-> stoi(p0.str).value, minor |-> stoi(p1.str).value]]

\* one turn of the header loop's body
HeaderLine(line, headers) ==
    LET colons == {i \in 1..Len(line) : line[i] = COLON}
    IN IF colons = {} THEN headers
       ELSE LET colon_pos == Min(colons)
                key == trim(SubSeq(line, 1, colon_pos - 1))
                value == trim(SubSeq(line, colon_pos + 1, Len(line)))
            IN MapAssign(headers, key, value)

\* HeaderLoop with the test `!line.empty()` in place of `line != "\r"`
RECURSIVE HeaderLoop_emptyLine(_, _, _)
HeaderLoop_emptyLine(s, pos, headers) ==
    LET g == getline(s, pos, LF)
    IN IF g.ok /\ g.line # <<>>
       THEN HeaderLoop_emptyLine(s, g.pos, HeaderLine(g.line, headers))
       ELSE [headers |-> headers, pos |-> g.pos]

\* HeaderLoop that also stops at a line that is empty once trimmed
RECURSIVE HeaderLoop_blankLine(_, _, _)
HeaderLoop_blankLine(s, pos, headers) ==
    LET g == getline(s, pos, LF)
    IN IF g.ok /\ trim(g.line) # <<>>
       THEN HeaderLoop_blankLine(s, g.pos, HeaderLine(g.line, headers))
       ELSE [headers |-> headers, pos |-> g.pos]

\* while (std::getline(stream, line) && line != "\r") { ... }: the headers
\* and the position the stream is left at
RECURSIVE HeaderLoop(_, _, _)
HeaderLoop(s, pos, headers) ==
    LET g == getline(s, pos, LF)
    IN IF g.ok /\ g.line # <<CR>>
       THEN HeaderLoop(s, g.pos, HeaderLine(g.line, headers))
       ELSE [headers |-> headers, pos |-> g.pos]

\* parse_request(raw): `ind` holds the values the build supplies where the
\* language leaves them open (ind.method, ind.version: the uninitialized
\* fields; ind.oob: the reads past the end of version_parts)
parse_request(raw, ind) ==
    LET first == getline(raw, 1, LF)
        parts == split(first.line, SP)
        rl == IF Len(parts) >= 3 THEN RequestLine(parts, ind)
              ELSE [outcome |-> "ok", method |-> ind.method, uri |-> <<>>,
                    version |-> ind.version]
        hl == HeaderLoop(raw, first.pos, EmptyMap)
    IN IF rl.outcome # "ok" THEN rl
       ELSE [outcome |-> "returned",
             request |-> [method |-> rl.method, uri |-> rl.uri, version |-> rl.version,
                          headers |-> hl.headers,
                          body |-> SubSeq(raw, hl.pos, Len(raw))]]

\* the values the build may supply on the path `raw` takes
NoInd == [method |-> "GET", version |-> [major |-> 0, minor |-> 0],
          oob |-> [i \in 0..1 |-> NoRead]]

Indeterminate(raw) ==
    LET parts == split(getline(raw, 1, LF).line, SP)
    IN IF Len(parts) < 3
       THEN {[NoInd EXCEPT !.method = m, !.version = [major |-> a, minor |-> b]] :
                m \in Method, a \in IndeterminateInt, b \in IndeterminateInt}
       ELSE IF Len(parts[3]) >= 5
               /\ Len(split(SubSeq(parts[3], 6, Len(parts[3])), DOT)) < 2
       THEN {[NoInd EXCEPT !.oob = o] : o \in [0..1 -> OutOfBoundsRead]}
       ELSE {NoInd}

----------------------------------------------------------------------------
(* construct_response and the canonical factories.                         *)

Lit_HTTP == <<72, 84, 84, 80, 47>>  \* "HTTP/"

RECURSIVE HeaderLines(_, _)
\* the loop over response.headers, in the map's iteration order
HeaderLines(headers, i) ==
    IF i > Len(headers) THEN <<>>
    ELSE headers[i].key \o <<COLON, SP>> \o headers[i].value \o <<CR, LF>>
         \o HeaderLines(headers, i + 1)

\* construct_response that adds a Content-Length header of its own
construct_response_withLength(r) ==
    Lit_HTTP \o to_string(r.version.major) \o <<DOT>> \o to_string(r.version.minor)
    \o <<SP>> \o to_string(r.status) \o <<SP>> \o status_message(r.status) \o <<CR, LF>>
    \o HeaderLines(r.headers, 1)
    \o <<67, 111, 110, 116, 101, 110, 116, 45, 76, 101, 110, 103, 116, 104>> \o <<COLON, SP>> \o to_string(Len(r.body)) \o <<CR, LF>>
    \o <<CR, LF>> \o r.body

construct_response(r) ==
    Lit_HTTP \o to_string(r.version.major) \o <<DOT>> \o to_string(r.version.minor)
    \o <<SP>> \o to_string(r.status) \o <<SP>> \o status_message(r.status) \o <<CR, LF>>
    \o HeaderLines(r.headers, 1)
    \o <<CR, LF>> \o r.body

\* the default arguments: JSON() and {{"Content-Type", "application/json"}}
DefaultBody == JSONnull
DefaultHeaders ==
    MapFromRange(<<[key |-> <<67, 111, 110, 116, 101, 110, 116, 45, 84, 121, 112, 101>>,
                    value |-> <<97, 112, 112, 108, 105, 99, 97, 116, 105, 111, 110, 47, 106, 115, 111, 110>>]>>)

Absent == [given |-> FALSE]
Given(x) == [given |-> TRUE, value |-> x]
\* the argument the call passes: the caller's, or the declared default
ArgOr(a, default) == IF a.given THEN a.value ELSE default

HTTP_200_OK(body, headers, isSigned) ==
    [version |-> [major |-> 1, minor |-> 1], status |-> 200,
     headers |-> headers, body |-> stringify(body, isSigned)]

HTTP_201_CREATED(body, headers, isSigned) ==
    [version |-> [major |-> 1, minor |-> 1], status |-> 201,
     headers |-> headers, body |-> stringify(body, isSigned)]

HTTP_400_BAD_REQUEST(body, headers, isSigned) ==
    [version |-> [major |-> 1, minor |-> 1], status |-> 400,
     headers |-> headers, body |-> stringify(body, isSigned)]

\* HTTP_404_NOT_FOUND that merges the default entry into the caller's mapping
HTTP_404_NOT_FOUND_merged(body, headers, isSigned) ==
    [version |-> [major |-> 1, minor |-> 1], status |-> 404,
     headers |-> MapInsert(headers, DefaultHeaders[1].key, DefaultHeaders[1].value),
     body |-> stringify(body, isSigned)]

HTTP_404_NOT_FOUND(body, headers, isSigned) ==
    [version |-> [major |-> 1, minor |-> 1], status |-> 404,
     headers |-> headers, body |-> stringify(body, isSigned)]

HTTP_500_INTERNAL_SERVER_ERROR(body, headers, isSigned) ==
    [version |-> [major |-> 1, minor |-> 1], status |-> 500,
     headers |-> headers, body |-> stringify(body, isSigned)]

custom_response(st, body, headers, isSigned) ==
    [version |-> [major |-> 1, minor |-> 1], status |-> st,
     headers |-> headers, body |-> stringify(body, isSigned)]

----------------------------------------------------------------------------
(* The arguments the callers pass.                                         *)

MaxHeaderLines == 2   \* lines between the request line and the terminator
MaxRawLen == 4        \* length of a buffer of arbitrary bytes
MaxHeaders == 2       \* entries of a header mapping
MaxPairs == 3         \* pairs of an initializer list
MaxStrLen == 2        \* bytes of a JSON string

\* all sequences over S of length at most n
RECURSIVE SeqsUpTo(_, _)
SeqsUpTo(S, n) ==
    IF n = 0 THEN {<<>>}
    ELSE LET shorter == SeqsUpTo(S, n - 1)
         IN shorter \cup {Append(q, x) : q \in {t \in shorter : Len(t) = n - 1}, x \in S}

RECURSIVE Concat(_)
Concat(ss) == IF ss = <<>> THEN <<>> ELSE Head(ss) \o Concat(Tail(ss))

\* the std::map holding the pairs of the function f
RECURSIVE MapOf(_)
MapOf(f) ==
    IF DOMAIN f = {} THEN EmptyMap
    ELSE LET k == CHOOSE x \in DOMAIN f : TRUE
         IN MapInsert(MapOf([y \in DOMAIN f \ {k} |-> f[y]]), k, f[k])

MapsOver(keys, values, n) ==
    {MapOf(f) : f \in UNION {[K -> values] : K \in {X \in SUBSET keys : Cardinality(X) <= n}}}

\* first lines, without the \n that ends them
RequestLines ==
    {
      <<71, 69, 84, 32, 47, 32, 72, 84, 84, 80, 47, 49, 46, 49, 13>>,  \* 'GET / HTTP/1.1\\r'
      <<80, 79, 83, 84, 32, 47, 97, 32, 72, 84, 84, 80, 47, 49, 46, 48, 13>>,  \* 'POST /a HTTP/1.0\\r'
      <<66, 65, 68, 76, 73, 78, 69, 13>>,  \* 'BADLINE\\r'
      <<71, 69, 84, 32, 47, 13>>,  \* 'GET /\\r'
      <<71, 69, 84, 32, 47, 32, 72, 84, 84, 80, 47, 120, 46, 121, 13>>,  \* 'GET / HTTP/x.y\\r'
      <<71, 69, 84, 32, 47, 32, 72, 84, 84, 80, 47, 49, 13>>,  \* 'GET / HTTP/1\\r'
      <<71, 69, 84, 32, 47, 32, 72, 84, 84, 13>>,  \* 'GET / HTT\\r'
      <<71, 69, 84, 32, 47, 32, 72, 84, 84, 80, 47, 13>>,  \* 'GET / HTTP/\\r'
      <<71, 69, 84, 32, 47, 32, 72, 84, 84, 80, 47>>,  \* 'GET / HTTP/'
      <<71, 69, 84, 32, 47, 32, 72, 84, 84, 80, 47, 49, 120, 46, 50, 121, 13>>,  \* 'GET / HTTP/1x.2y\\r'
      <<71, 69, 84, 32, 47, 32, 72, 84, 84, 80, 47, 50, 49, 52, 55, 52, 56, 51, 54, 52, 56, 46, 48, 13>>,  \* 'GET / HTTP/2147483648.0\\r'
      <<70, 79, 79, 32, 47, 32, 72, 84, 84, 80, 47, 49, 46, 49, 32, 101, 120, 116, 114, 97, 13>>,  \* 'FOO / HTTP/1.1 extra\\r'
      <<71, 69, 84, 32, 32, 72, 84, 84, 80, 47, 49, 46, 49, 13>>,  \* 'GET  HTTP/1.1\\r'
      <<>>,  \* ''
      <<13>>,  \* '\\r'
      <<71, 69, 84, 32, 47, 32, 72, 84, 84, 80, 47, 49, 46, 49>>,  \* 'GET / HTTP/1.1'
      <<71, 69, 84, 32, 47, 32, 72, 84, 84, 80, 47, 46, 49, 13>>,  \* 'GET / HTTP/.1\\r'
      <<71, 69, 84, 32, 47, 32, 72, 84, 84, 80, 47, 45, 49, 46, 43, 50, 13>>,  \* 'GET / HTTP/-1.+2\\r'
      <<103, 101, 116, 32, 47, 32, 72, 84, 84, 80, 47, 49, 46, 9, 52, 13>>,  \* 'get / HTTP/1.\\t4\\r'
      <<71, 69, 84, 32, 47, 32, 72, 84, 84, 80, 47, 49, 46, 120, 13>>,  \* 'GET / HTTP/1.x\\r'
      <<71, 69, 84, 32, 47, 32, 72>>,  \* 'GET / H'
      <<97, 32, 98, 32, 32, 13>>  \* 'a b  \\r'
    }

\* what follows the first line's \n in the buffers built from RequestLines
SimpleRests ==
    {
      <<>>,  \* ''
      <<10>>,  \* '\\n'
      <<10, 13, 10>>,  \* '\\n\\r\\n'
      <<10, 72, 111, 115, 116, 58, 32, 108, 111, 99, 97, 108, 104, 111, 115, 116, 13, 10, 13, 10, 104, 105>>  \* '\\nHost: localhost\\r\\n\\r\\nhi'
    }

HeaderLineTexts ==
    {
      <<72, 111, 115, 116, 58, 32, 108, 111, 99, 97, 108, 104, 111, 115, 116, 13, 10>>,  \* 'Host: localhost\\r\\n'
      <<72, 111, 115, 116, 58, 98, 13, 10>>,  \* 'Host:b\\r\\n'
      <<32, 107, 32, 9, 58, 32, 118, 58, 119, 32, 13, 10>>,  \* ' k \\t: v:w \\r\\n'
      <<110, 111, 99, 111, 108, 111, 110, 13, 10>>,  \* 'nocolon\\r\\n'
      <<97, 58, 49, 10>>,  \* 'a:1\\n'
      <<10>>,  \* '\\n'
      <<58, 13, 10>>,  \* ':\\r\\n'
      <<67, 111, 110, 116, 101, 110, 116, 45, 76, 101, 110, 103, 116, 104, 58, 32, 49, 13, 10>>  \* 'Content-Length: 1\\r\\n'
    }

Terminators ==
    {
      <<13, 10>>,  \* '\\r\\n'
      <<>>,  \* ''
      <<13>>,  \* '\\r'
      <<10>>  \* '\\n'
    }

Bodies ==
    {
      <<>>,  \* ''
      <<104, 105>>,  \* 'hi'
      <<97, 58, 98, 13, 10, 13, 10, 120, 58, 32, 121, 13, 10>>  \* 'a:b\\r\\n\\r\\nx: y\\r\\n'
    }

RawBytes == {CR, LF, COLON, SP, 97}

StructuredBuffers ==
    {l \o <<LF>> \o Concat(hs) \o t \o b :
        l \in {<<71, 69, 84, 32, 47, 32, 72, 84, 84, 80, 47, 49, 46, 49, 13>>},   \* GET / HTTP/1.1\r
        hs \in SeqsUpTo(HeaderLineTexts, MaxHeaderLines),
        t \in Terminators, b \in Bodies}

Buffers ==
    {l \o r : l \in RequestLines, r \in SimpleRests}
    \cup StructuredBuffers
    \cup SeqsUpTo(RawBytes, MaxRawLen)

\* the requests a client sends: a well-formed request line, header names and
\* values free of CR, LF and surrounding white space, names free of ':'
SentHeaderNames == {<<>>, <<72, 111, 115, 116>>, <<88, 32, 121>>}
SentHeaderValues == {<<>>, <<108, 111, 99, 97, 108, 104, 111, 115, 116>>, <<97, 58, 32, 98>>}
SentBodies == {<<>>, <<104, 105>>, <<13, 10, 97, 58, 98, 13, 10, 13, 10>>}

SentRequests ==
    {[method |-> m, uri |-> tv[1], version |-> tv[2], headers |-> h, body |-> b] :
        m \in Method,
        tv \in {<<<<47, 104, 101, 108, 108, 111>>, [major |-> 1, minor |-> 1]>>,
                <<<<>>, [major |-> 0, minor |-> 9]>>,
                <<<<47, 97, 63, 98, 58, 99>>, [major |-> 12, minor |-> INT_MAX]>>},
        h \in MapsOver(SentHeaderNames, SentHeaderValues, MaxHeaders),
        b \in SentBodies}

\* the text of a request on the wire
RequestText(r) ==
    method_to_string(r.method) \o <<SP>> \o r.uri \o <<SP>> \o Lit_HTTP
    \o to_string(r.version.major) \o <<DOT>> \o to_string(r.version.minor) \o <<CR, LF>>
    \o HeaderLines(r.headers, 1) \o <<CR, LF>> \o r.body

NotSent == [method |-> "none"]

\* JSON values
JsonKeys == {<<97>>, <<98>>, <<97, 98>>, <<66, QUOTE>>}   \* a, b, ab, B"
PairValues == {JSONint(1), JSONint(2)}
Pairs == {[key |-> k, value |-> v] : k \in JsonKeys, v \in PairValues}

InitLists ==
    SeqsUpTo(Pairs, MaxPairs)
    \cup {<<[key |-> <<98>>, value |-> JSONarray(<<JSONbool(TRUE), JSONnull>>)],
            [key |-> <<97>>, value |-> JSONobject(<<[key |-> <<122>>, value |-> JSONstring(<<LF>>)],
                                                    [key |-> <<121>>, value |-> JSONdouble(1500000)]>>)]>>}

\* every byte below 0x20, and some above
StringBytes == 0..US \cup {SP, QUOTE, BACKSLASH, 97, 127, 128, 255}

JsonValues ==
    {JSONstring(str) : str \in SeqsUpTo(StringBytes, MaxStrLen)}
    \cup {JSONnull, JSONbool(TRUE), JSONbool(FALSE),
          JSONint(0), JSONint(-7), JSONint(INT_MAX), JSONint(INT_MIN),
          JSONdouble(0), JSONdouble(1500000), JSONdouble(-250000), JSONdouble(12000001),
          JSONarray(<<>>), JSONobject(<<>>),
          JSONarray(<<JSONint(1), JSONstring(<<97, 11>>), JSONarray(<<JSONnull>>)>>)}

\* responses
StatusValues == HttpStatus \cup {0, 299, 600}
BodyArgs ==
    {Absent, Given(JSONnull), Given(JSONint(5)), Given(JSONstring(<<97, QUOTE>>)),
     Given(JSONobject(<<[key |-> <<98>>, value |-> JSONint(1)],
                        [key |-> <<97>>, value |-> JSONarray(<<JSONbool(FALSE)>>)]>>))}
ResponseHeaderNames == {<<67, 111, 110, 116, 101, 110, 116, 45, 84, 121, 112, 101>>, <<88, 45, 65>>, <<65>>}   \* Content-Type, X-A, A
ResponseHeaderValues == {<<>>, <<116, 101, 120, 116, 47, 112, 108, 97, 105, 110>>}                                            \* "", text/plain
HeaderMaps == MapsOver(ResponseHeaderNames, ResponseHeaderValues, MaxHeaders)
HeaderArgs == {Absent} \cup {Given(h) : h \in HeaderMaps}
ResponseBodies == {<<>>, Lit_null, <<97, 13, 10, 13, 10, 98>>}
Responses ==
    {[version |-> v, status |-> st, headers |-> h, body |-> b] :
        v \in {[major |-> 1, minor |-> 1], [major |-> 2, minor |-> 0], [major |-> -1, minor |-> 10]},
        st \in StatusValues, h \in HeaderMaps, b \in ResponseBodies}

NoResponse == [status |-> -1]
NoOutcome == [outcome |-> "none"]
NoInit == Absent

Factories == {"HTTP_200_OK", "HTTP_201_CREATED", "HTTP_400_BAD_REQUEST",
              "HTTP_404_NOT_FOUND", "HTTP_500_INTERNAL_SERVER_ERROR", "custom_response"}

----------------------------------------------------------------------------
(* The state machine: a caller picks a function and its arguments (Init),  *)
(* the function runs (one action each).                                    *)

InitParse ==
    /\ pc = "call" /\ callee = "parse_request"
    /\ \/ raw_request \in Buffers /\ sent = NotSent
       \/ sent \in SentRequests /\ raw_request = RequestText(sent)
    /\ request = NoOutcome
    /\ signedChar \in BOOLEAN
    /\ json = JSONnull /\ json_init = NoInit /\ text = <<>>
    /\ bodyArg = Absent /\ status = 0 /\ headersArg = Absent
    /\ response = NoResponse /\ wire = <<>>

InitJson ==
    /\ pc = "call"
    /\ signedChar \in BOOLEAN
    /\ \/ callee = "JSON::object" /\ json_init \in {Given(l) : l \in InitLists}
          /\ json = JSONnull
       \/ callee = "stringify" /\ json_init = NoInit /\ json \in JsonValues
    /\ text = <<>>
    /\ raw_request = <<>> /\ sent = NotSent /\ request = NoOutcome
    /\ bodyArg = Absent /\ status = 0 /\ headersArg = Absent
    /\ response = NoResponse /\ wire = <<>>

InitResponse ==
    /\ pc = "call"
    /\ signedChar \in BOOLEAN
    /\ \/ /\ callee \in Factories
          /\ bodyArg \in BodyArgs /\ headersArg \in HeaderArgs
          /\ status \in (IF callee = "custom_response" THEN StatusValues ELSE {0})
          /\ response = NoResponse
       \/ /\ callee = "construct_response"
          /\ bodyArg = Absent /\ headersArg = Absent /\ status = 0
          /\ response \in Responses
    /\ wire = <<>>
    /\ raw_request = <<>> /\ sent = NotSent /\ request = NoOutcome
    /\ json = JSONnull /\ json_init = NoInit /\ text = <<>>

ParseRequest ==
    /\ pc = "call" /\ callee = "parse_request"
    /\ \E ind \in Indeterminate(raw_request) :
          request' = parse_request(raw_request, ind)
    /\ pc' = "done"
    /\ UNCHANGED <<callee, raw_request, sent, json, signedChar, text, json_init,
                   bodyArg, status, headersArg, response, wire>>

JsonObject ==
    /\ pc = "call" /\ callee = "JSON::object"
    /\ json' = JSONobject(json_init.value)
    /\ callee' = "stringify"
    /\ UNCHANGED <<pc, raw_request, sent, request, signedChar, text, json_init,
                   bodyArg, status, headersArg, response, wire>>

Stringify ==
    /\ pc = "call" /\ callee = "stringify"
    /\ text' = stringify(json, signedChar)
    /\ pc' = "done"
    /\ UNCHANGED <<callee, raw_request, sent, request, json, signedChar, json_init,
                   bodyArg, status, headersArg, response, wire>>

Built(r) ==
    /\ response' = r
    /\ pc' = "built"
    /\ UNCHANGED <<callee, raw_request, sent, request, json, signedChar, text,
                   json_init, bodyArg, status, headersArg, wire>>

Call_HTTP_200_OK ==
    /\ pc = "call" /\ callee = "HTTP_200_OK"
    /\ Built(HTTP_200_OK(ArgOr(bodyArg, DefaultBody),
                         ArgOr(headersArg, DefaultHeaders), signedChar))

Call_HTTP_201_CREATED ==
    /\ pc = "call" /\ callee = "HTTP_201_CREATED"
    /\ Built(HTTP_201_CREATED(ArgOr(bodyArg, DefaultBody),
                              ArgOr(headersArg, DefaultHeaders), signedChar))

Call_HTTP_400_BAD_REQUEST ==
    /\ pc = "call" /\ callee = "HTTP_400_BAD_REQUEST"
    /\ Built(HTTP_400_BAD_REQUEST(ArgOr(bodyArg, DefaultBody),
                                  ArgOr(headersArg, DefaultHeaders), signedChar))

Call_HTTP_404_NOT_FOUND ==
    /\ pc = "call" /\ callee = "HTTP_404_NOT_FOUND"
    /\ Built(HTTP_404_NOT_FOUND(ArgOr(bodyArg, DefaultBody),
                                ArgOr(headersArg, DefaultHeaders), signedChar))

Call_HTTP_500_INTERNAL_SERVER_ERROR ==
    /\ pc = "call" /\ callee = "HTTP_500_INTERNAL_SERVER_ERROR"
    /\ Built(HTTP_500_INTERNAL_SERVER_ERROR(ArgOr(bodyArg, DefaultBody),
                                            ArgOr(headersArg, DefaultHeaders), signedChar))

Call_custom_response ==
    /\ pc = "call" /\ callee = "custom_response"
    /\ Built(custom_response(status, ArgOr(bodyArg, DefaultBody),
                             ArgOr(headersArg, DefaultHeaders), signedChar))

ConstructResponse ==
    /\ pc = "built" \/ (pc = "call" /\ callee = "construct_response")
    /\ wire' = construct_response(response)
    /\ pc' = "done"
    /\ UNCHANGED <<callee, raw_request, sent, request, json, signedChar, text,
                   json_init, bodyArg, status, headersArg, response>>

NextParse == ParseRequest

NextJson == JsonObject \/ Stringify

NextResponse ==
    \/ Call_HTTP_200_OK
    \/ Call_HTTP_201_CREATED
    \/ Call_HTTP_400_BAD_REQUEST
    \/ Call_HTTP_404_NOT_FOUND
    \/ Call_HTTP_500_INTERNAL_SERVER_ERROR
    \/ Call_custom_response
    \/ ConstructResponse

SpecParse == InitParse /\ [][NextParse]_vars

SpecJson == InitJson /\ [][NextJson]_vars

SpecResponse == InitResponse /\ [][NextResponse]_vars

----------------------------------------------------------------------------
(* The request text as the claims read it: the lines after the request     *)
(* line, each named by the index of its first byte.                        *)

LFs(raw) == {i \in 1..Len(raw) : raw[i] = LF}
RequestLineText(raw) ==
    IF LFs(raw) = {} THEN raw ELSE SubSeq(raw, 1, Min(LFs(raw)) - 1)
RequestLineTokens(raw) == split(RequestLineText(raw), SP)

LineStarts(raw) == {i \in 2..Len(raw) : raw[i - 1] = LF /\ \E j \in LFs(raw) : j < i}
LineEnd(raw, i) == Min({j \in LFs(raw) : j >= i} \cup {Len(raw) + 1}) - 1
LineText(raw, i) == SubSeq(raw, i, LineEnd(raw, i))
TerminatorStarts(raw) == {i \in LineStarts(raw) : LineText(raw, i) = <<CR>>}
HeaderLineStarts(raw) ==
    IF TerminatorStarts(raw) = {} THEN LineStarts(raw)
    ELSE {i \in LineStarts(raw) : i < Min(TerminatorStarts(raw))}

HasColon(line) == \E i \in 1..Len(line) : line[i] = COLON
FirstColon(line) == Min({i \in 1..Len(line) : line[i] = COLON})
LeftOf(line) == SubSeq(line, 1, FirstColon(line) - 1)
RightOf(line) == SubSeq(line, FirstColon(line) + 1, Len(line))
NoSurroundingSpace(str) == str = <<>> \/ (~isspace(str[1]) /\ ~isspace(str[Len(str)]))

\* the header lines (with a ':') whose trimmed left side is k
LinesOfKey(raw, k) ==
    {i \in HeaderLineStarts(raw) :
        HasColon(LineText(raw, i)) /\ trim(LeftOf(LineText(raw, i))) = k}
ExpectedKeys(raw) ==
    {trim(LeftOf(LineText(raw, i))) :
        i \in {j \in HeaderLineStarts(raw) : HasColon(LineText(raw, j))}}
\* last occurrence wins
ExpectedValue(raw, k) == trim(RightOf(LineText(raw, Max(LinesOfKey(raw, k)))))

Returned == pc = "done" /\ callee = "parse_request" /\ request.outcome = "returned"

\* "a valid integer", read the way most favourable to the code: what
\* std::stoi converts without throwing
ValidInteger(str) == stoi(str).ok
VersionText(raw) == SubSeq(RequestLineTokens(raw)[3], 6, Len(RequestLineTokens(raw)[3]))
VersionIsNumeric(raw) ==
    /\ Len(RequestLineTokens(raw)[3]) >= 5
    /\ Len(split(VersionText(raw), DOT)) >= 2
    /\ ValidInteger(split(VersionText(raw), DOT)[1])
    /\ ValidInteger(split(VersionText(raw), DOT)[2])

\* C1: parse_request signals an error to its caller exactly when the request
\* line has 3 or more tokens and the major or the minor substring of the
\* third token is not a valid integer; for every other buffer it returns a
\* Request without error.
C1_OnlyVersionFailure ==
    (pc = "done" /\ callee = "parse_request") =>
        IF Len(RequestLineTokens(raw_request)) >= 3 /\ ~VersionIsNumeric(raw_request)
        THEN request.outcome = "threw"
        ELSE request.outcome = "returned"

\* C2: for every buffer whose first line has fewer than 3 tokens,
\* parse_request raises no error and returns a Request whose method, target
\* and version hold their default (zero/empty) values: the first enumerator
\* GET, the empty string, 0.0.
C2_DefaultsOnShortLine ==
    (pc = "done" /\ callee = "parse_request"
        /\ Len(RequestLineTokens(raw_request)) < 3) =>
        /\ request.outcome = "returned"
        /\ request.request.method = "GET"
        /\ request.request.uri = <<>>
        /\ request.request.version = [major |-> 0, minor |-> 0]

\* C3: round trip: parsing the text of a well-formed Request R yields a
\* Request equal to R in method, target, version, headers and body.
C3_RoundTrip ==
    (pc = "done" /\ sent # NotSent) =>
        /\ request.outcome = "returned"
        /\ request.request = sent

C3_Witness ==
    /\ Returned /\ sent # NotSent
    /\ sent.method = "PATCH" /\ Len(sent.headers) = 2
    /\ sent.body = <<13, 10, 97, 58, 98, 13, 10, 13, 10>>
    /\ request.request.body = sent.body

\* C4: when some line after the request line is exactly "\r", the body is
\* the buffer content following the first such line's terminating \n, byte
\* for byte, regardless of any Content-Length header, and no line after that
\* terminator is added to the header mapping.
C4_BodyAfterTerminator ==
    (Returned /\ TerminatorStarts(raw_request) # {}) =>
        LET t == Min(TerminatorStarts(raw_request))
        IN /\ request.request.body = SubSeq(raw_request, t + 2, Len(raw_request))
           /\ \A e \in 1..Len(request.request.headers) :
                \E i \in LineStarts(raw_request) :
                    /\ i < t
                    /\ HasColon(LineText(raw_request, i))
                    /\ request.request.headers[e].key = trim(LeftOf(LineText(raw_request, i)))
                    /\ request.request.headers[e].value = trim(RightOf(LineText(raw_request, i)))

\* a Content-Length of 1 before a longer body that itself holds a blank
\* line and lines with ':'
C4_Witness ==
    /\ Returned /\ TerminatorStarts(raw_request) # {}
    /\ <<67, 111, 110, 116, 101, 110, 116, 45, 76, 101, 110, 103, 116, 104>> \in MapKeys(request.request.headers)
    /\ request.request.body = <<97, 58, 98, 13, 10, 13, 10, 120, 58, 32, 121, 13, 10>>
    /\ Len(request.request.headers) = 1

\* C5: the header mapping is the result of processing, in order, the lines
\* between the request line and the terminator line: a line with ':' stores
\* trim(left) -> trim(right), the last occurrence of a key winning; a line
\* without ':' changes nothing and raises no error.  No stored key or value
\* has leading or trailing white space.
C5_HeaderMapping ==
    Returned =>
        LET h == request.request.headers
        IN /\ MapKeys(h) = ExpectedKeys(raw_request)
           /\ \A e \in 1..Len(h) :
                /\ h[e].value = ExpectedValue(raw_request, h[e].key)
                /\ NoSurroundingSpace(h[e].key)
                /\ NoSurroundingSpace(h[e].value)
           /\ \A e \in 1..(Len(h) - 1) : StrLess(h[e].key, h[e + 1].key)

\* a key given twice, a line without ':', and white space (a trailing \r
\* too) around a key and a value
C5_Witness ==
    /\ Returned
    /\ \E k \in MapKeys(request.request.headers) :
          /\ Cardinality(LinesOfKey(raw_request, k)) = 2
          /\ \E i, j \in LinesOfKey(raw_request, k) :
                /\ i < j
                /\ trim(RightOf(LineText(raw_request, i))) # trim(RightOf(LineText(raw_request, j)))
                /\ RightOf(LineText(raw_request, j)) # trim(RightOf(LineText(raw_request, j)))
    /\ \E i \in HeaderLineStarts(raw_request) : ~HasColon(LineText(raw_request, i))

\* C10: if no line after the request line is exactly "\r", the header loop
\* consumes every remaining line: the body is empty, and every remaining
\* line that contains ':' is stored as a header.
C10_NoTerminator ==
    (Returned /\ TerminatorStarts(raw_request) = {}) =>
        /\ request.request.body = <<>>
        /\ \A i \in LineStarts(raw_request) :
              HasColon(LineText(raw_request, i)) =>
                  /\ trim(LeftOf(LineText(raw_request, i))) \in MapKeys(request.request.headers)
                  /\ MapAt(request.request.headers, trim(LeftOf(LineText(raw_request, i))))
                        = ExpectedValue(raw_request, trim(LeftOf(LineText(raw_request, i))))

\* bare \n line endings: the sender's blank line is the empty string, and a
\* line with ':' that it placed after the blank line became a header
C10_Witness ==
    /\ Returned /\ TerminatorStarts(raw_request) = {}
    /\ request.request.body = <<>>
    /\ \E i, j \in LineStarts(raw_request) :
          /\ i < j
          /\ LineText(raw_request, i) = <<>>
          /\ HasColon(LineText(raw_request, j))
          /\ trim(LeftOf(LineText(raw_request, j))) \in MapKeys(request.request.headers)

----------------------------------------------------------------------------
(* The response text and the JSON text as the claims read them.            *)

\* the elements of the set of strings K, ascending
RECURSIVE Ascending(_)
Ascending(K) ==
    IF K = {} THEN <<>>
    ELSE LET least == CHOOSE k \in K : \A o \in K \ {k} : StrLess(k, o)
         IN <<least>> \o Ascending(K \ {least})

ReasonPhrases ==
    {
     <<200, <<79, 75>>>>,
     <<201, <<67, 114, 101, 97, 116, 101, 100>>>>,
     <<202, <<65, 99, 99, 101, 112, 116, 101, 100>>>>,
     <<204, <<78, 111, 32, 67, 111, 110, 116, 101, 110, 116>>>>,
     <<400, <<66, 97, 100, 32, 82, 101, 113, 117, 101, 115, 116>>>>,
     <<401, <<85, 110, 97, 117, 116, 104, 111, 114, 105, 122, 101, 100>>>>,
     <<403, <<70, 111, 114, 98, 105, 100, 100, 101, 110>>>>,
     <<404, <<78, 111, 116, 32, 70, 111, 117, 110, 100>>>>,
     <<405, <<77, 101, 116, 104, 111, 100, 32, 78, 111, 116, 32, 65, 108, 108, 111, 119, 101, 100>>>>,
     <<500, <<73, 110, 116, 101, 114, 110, 97, 108, 32, 83, 101, 114, 118, 101, 114, 32, 69, 114, 114, 111, 114>>>>,
     <<501, <<78, 111, 116, 32, 73, 109, 112, 108, 101, 109, 101, 110, 116, 101, 100>>>>,
     <<502, <<66, 97, 100, 32, 71, 97, 116, 101, 119, 97, 121>>>>,
     <<503, <<83, 101, 114, 118, 105, 99, 101, 32, 85, 110, 97, 118, 97, 105, 108, 97, 98, 108, 101>>>>
    }
ReasonPhrase(st) ==
    IF \E e \in ReasonPhrases : e[1] = st
    THEN (CHOOSE e \in ReasonPhrases : e[1] = st)[2]
    ELSE <<85, 110, 107, 110, 111, 119, 110, 32, 83, 116, 97, 116, 117, 115>>   \* Unknown Status

ExpectedWire(r) ==
    LET keys == Ascending(MapKeys(r.headers))
    IN Lit_HTTP \o to_string(r.version.major) \o <<DOT>> \o to_string(r.version.minor)
       \o <<SP>> \o to_string(r.status) \o <<SP>> \o ReasonPhrase(r.status) \o <<CR, LF>>
       \o Concat([i \in 1..Len(keys) |->
                    keys[i] \o <<COLON, SP>> \o MapAt(r.headers, keys[i]) \o <<CR, LF>>])
       \o <<CR, LF>> \o r.body

\* C6: construct_response returns exactly the status line with the numeric
\* status and its reason phrase ("Unknown Status" outside the 13 codes), one
\* "<name>: <value>\r\n" per header in ascending key order, "\r\n", and the
\* body verbatim; no header is added.
C6_WireFormat ==
    (pc = "done" /\ response # NoResponse) => wire = ExpectedWire(response)

\* a status outside the whitelist, two headers, a body
C6_Witness ==
    /\ pc = "done" /\ response # NoResponse
    /\ response.status = 299 /\ Len(response.headers) = 2 /\ response.body # <<>>
    /\ wire # <<>>

C6_Witness404 ==
    /\ pc = "done" /\ response # NoResponse
    /\ wire = <<72, 84, 84, 80, 47, 49, 46, 49, 32, 52, 48, 52, 32, 78, 111, 116, 32, 70, 111, 117, 110, 100, 13, 10, 67, 111, 110, 116, 101, 110, 116, 45, 84, 121, 112, 101, 58, 32, 97, 112, 112, 108, 105, 99, 97, 116, 105, 111, 110, 47, 106, 115, 111, 110, 13, 10, 13, 10, 110, 117, 108, 108>>

\* the text of one byte of a String, as the escaping rule states it
ExpectedEscape(c) ==
    IF c = QUOTE THEN <<BACKSLASH, QUOTE>>
    ELSE IF c = BACKSLASH THEN <<BACKSLASH, BACKSLASH>>
    ELSE IF c = 8 THEN <<BACKSLASH, 98>>     \* \b
    ELSE IF c = 12 THEN <<BACKSLASH, 102>>   \* \f
    ELSE IF c = 10 THEN <<BACKSLASH, 110>>   \* \n
    ELSE IF c = 13 THEN <<BACKSLASH, 114>>   \* \r
    ELSE IF c = 9 THEN <<BACKSLASH, 116>>    \* \t
    ELSE IF c < 32 THEN <<BACKSLASH, 117, 48, 48, 48 + (c \div 10), 48 + (c % 10)>>
    ELSE <<c>>

ExpectedEscaped(str) == Concat([i \in 1..Len(str) |-> ExpectedEscape(str[i])])

\* the number of backslashes that immediately precede position i of str
BackslashesBefore(str, i) ==
    (i - 1) - Max({j \in 1..(i - 1) : str[j] # BACKSLASH} \cup {0})

Contains(str, part) ==
    \E i \in 0..(Len(str) - Len(part)) : SubSeq(str, i + 1, i + Len(part)) = part

ExpectedObjectText(pairs, isSigned) ==
    LET keys == Ascending({pr.key : pr \in pairs})
        valueOf(k) == (CHOOSE pr \in pairs : pr.key = k).value
        member(i) == <<QUOTE>> \o ExpectedEscaped(keys[i]) \o <<QUOTE, COLON>>
                     \o stringify(valueOf(keys[i]), isSigned)
    IN <<123>>
       \o Concat([i \in 1..Len(keys) |-> (IF i > 1 THEN <<COMMA>> ELSE <<>>) \o member(i)])
       \o <<125>>

Range(q) == {q[i] : i \in 1..Len(q)}
DistinctKeys(init) == \A i, j \in 1..Len(init) : i # j => init[i].key # init[j].key
Reorderings(init) ==
    {[i \in 1..Len(init) |-> init[f[i]]] :
        f \in {g \in [1..Len(init) -> 1..Len(init)] : \A a, b \in 1..Len(init) : a # b => g[a] # g[b]}}

\* C7: object serialization is invariant to insertion order: for distinct
\* keys, in whatever order the pairs are given to JSON::object, stringify
\* returns "{" + the "key":value pairs in ascending key order joined by ","
\* + "}" ("{}" for the empty object).
C7_InsertionOrder ==
    (pc = "done" /\ json_init.given /\ DistinctKeys(json_init.value)) =>
        /\ text = ExpectedObjectText(Range(json_init.value), signedChar)
        /\ \A other \in Reorderings(json_init.value) :
              stringify(JSONobject(other), signedChar) = text

\* {"b":1,"a":2}, given b first, is written {"a":2,"b":1}
C7_Witness ==
    /\ pc = "done" /\ json_init.given
    /\ json_init.value = <<[key |-> <<98>>, value |-> JSONint(1)],
                           [key |-> <<97>>, value |-> JSONint(2)]>>
    /\ text = <<123, 34, 97, 34, 58, 50, 44, 34, 98, 34, 58, 49, 125>>

C7_WitnessEmpty ==
    pc = "done" /\ json_init.given /\ json_init.value = <<>> /\ text = <<123, 125>>

\* C8: a String (and every object key) is written as '"' + escaped bytes +
\* '"', each byte mapped on its own: the seven named escapes, \u and the
\* zero-padded 4-digit decimal byte value for every other byte below 0x20,
\* every other byte unchanged; the text between the quotes holds no raw byte
\* below 0x20 and no unescaped '"'.
C8_Escaping ==
    /\ (pc = "done" /\ json.type = "string") =>
          LET inner == SubSeq(text, 2, Len(text) - 1)
          IN /\ text = <<QUOTE>> \o ExpectedEscaped(json.s) \o <<QUOTE>>
             /\ \A i \in 1..Len(inner) :
                   /\ inner[i] >= 32
                   /\ inner[i] = QUOTE => BackslashesBefore(inner, i) % 2 = 1
    /\ (pc = "done" /\ json.type = "object") =>
          \A e \in 1..Len(json.o) :
              Contains(text, <<QUOTE>> \o ExpectedEscaped(json.o[e].key) \o <<QUOTE, COLON>>)

\* vertical tab, 0x0B, is written \u0011; the quote after it is escaped
C8_Witness ==
    /\ pc = "done" /\ json.type = "string"
    /\ json.s = <<11, QUOTE>>
    /\ text = <<QUOTE, BACKSLASH, 117, 48, 48, 49, 49, BACKSLASH, QUOTE, QUOTE>>

C8_WitnessKey ==
    /\ pc = "done" /\ json.type = "object"
    /\ \E e \in 1..Len(json.o) : QUOTE \in Range(json.o[e].key)

NameStatus(name) ==
    CASE name = "HTTP_200_OK" -> 200
      [] name = "HTTP_201_CREATED" -> 201
      [] name = "HTTP_400_BAD_REQUEST" -> 400
      [] name = "HTTP_404_NOT_FOUND" -> 404
      [] name = "HTTP_500_INTERNAL_SERVER_ERROR" -> 500
      [] name = "custom_response" -> status

\* C9: each canonical factory returns a Response with version 1.1, the
\* status of its name (or the status argument), body equal to stringify of
\* the given JSON value ("null" when omitted), and headers equal to the
\* given mapping, or to the single entry Content-Type: application/json when
\* omitted; a given mapping replaces the default, it is not merged with it.
C9_Factories ==
    (pc = "built") =>
        /\ callee \in Factories
        /\ response.version = [major |-> 1, minor |-> 1]
        /\ response.status = NameStatus(callee)
        /\ response.body = (IF bodyArg.given THEN stringify(bodyArg.value, signedChar)
                            ELSE <<110, 117, 108, 108>>)
        /\ response.headers =
              (IF headersArg.given THEN headersArg.value
               ELSE <<[key |-> <<67, 111, 110, 116, 101, 110, 116, 45, 84, 121, 112, 101>>,
                       value |-> <<97, 112, 112, 108, 105, 99, 97, 116, 105, 111, 110, 47, 106, 115, 111, 110>>]>>)

\* a caller's mapping without Content-Type: the result has none
C9_Witness ==
    /\ pc = "built" /\ callee = "HTTP_404_NOT_FOUND"
    /\ headersArg.given /\ Len(headersArg.value) = 1
    /\ <<67, 111, 110, 116, 101, 110, 116, 45, 84, 121, 112, 101>> \notin MapKeys(response.headers)
    /\ bodyArg.given /\ response.body # <<110, 117, 108, 108>>

C9_WitnessDefaults ==
    /\ pc = "built" /\ callee = "custom_response" /\ status = 503
    /\ ~headersArg.given /\ ~bodyArg.given
    /\ response.body = <<110, 117, 108, 108>> /\ Len(response.headers) = 1

====
